---- MODULE Spec2Model ----
(***************************************************************************)
(* Model of the resilient API client (projects/project02/client/photoapp.py) *)
(* and of the transactional mapping store (labs/lab02/shorten.py).           *)
(*                                                                           *)
(* Two specifications share this module:                                     *)
(*   SpecClient / FairSpecClient : one caller of the photoapp API functions, *)
(*       every function wrapped by the tenacity retry decorator;             *)
(*   SpecStore  : one caller of the shorten.py functions against a           *)
(*       transactional table, every database step able to fail.              *)
(***************************************************************************)
EXTENDS Integers, Sequences, FiniteSets, TLC

VARIABLES
  \* ---- photoapp client ----
  cpc,        \* "idle" | "attempt" | "sleep" | "returned" | "raised"
  cop,        \* the API function being called
  carg,       \* its arguments: [file, dest]
  attempt,    \* tenacity's attempt_number of the current attempt (1-based)
  requests,   \* transport requests sent by the current call
  sleeps,     \* backoff delays slept by the current call, in order
  errs,       \* the exception raised by each failed attempt of the call, in order
  lastOutcome,\* what the transport did on the latest attempt
  cres,       \* how the call resolved: [ok, value, err]
  uploads,    \* image records the web service created for the current call
  writes,     \* local files the current call has written
  prevCall,   \* the call resolved last: [op, attempts]
  \* ---- mapping store ----
  table,      \* LinksTable: ShortUrl -> sequence of rows [longurl, count]
  txn,        \* the open transaction's view of the table
  spc,        \* position inside the current store function
  sop,        \* the store function being called
  sarg,       \* its arguments: [shorturl, longurl]
  conn,       \* dbConn: "unset" | "none" | "open" | "closed"
  sret,       \* the value the function returns: [kind, val]
  pending,    \* the value a try-body return has set aside while finally runs
  escaped,    \* TRUE when an exception leaves the function
  failed,     \* TRUE when some database step of the call failed
  steps,      \* database steps performed by the call, in order
  pre,        \* the table when the call started
  prev,       \* the previous finished call: [op, shorturl, longurl, ret]
  openConns,  \* connections currently open
  \* ---- lab01 web client ----
  lpc,        \* "loop" while the retry loop runs, "after" once it is left
  retry,      \* the loop's counter
  response,   \* status_code of the response variable (0: not bound yet)
  lrequests,  \* requests.get calls made
  lsleeps,    \* time.sleep arguments, in order
  lseen,      \* what each requests.get call did, in order
  \* ---- mapping store, concurrent callers ----
  dbTable,    \* LinksTable as committed
  dbInit,     \* LinksTable before any of the callers started
  rowLock,    \* ShortUrl -> the caller whose open transaction wrote that row (0: none)
  ppc,        \* caller -> position inside its store function
  pcall,      \* caller -> [op, shorturl, longurl]
  pwrite,     \* caller -> the uncommitted row its transaction wrote: [set, rows]
  pread,      \* caller -> the value its try-body return has set aside
  pret,       \* caller -> the value its call returned
  pcommitted, \* caller -> TRUE once its transaction has committed
  pfailed,    \* caller -> TRUE when a database step of its call failed
  overlapped  \* TRUE once a call has started while another was under way

cvars == <<cpc, cop, carg, attempt, requests, sleeps, errs, lastOutcome, cres,
          uploads, writes, prevCall>>
svars == <<table, txn, spc, sop, sarg, conn, sret, pending, escaped, failed, steps,
           pre, prev, openConns>>
lvars == <<lpc, retry, response, lrequests, lsleeps, lseen>>
pvars == <<dbTable, dbInit, rowLock, ppc, pcall, pwrite, pread, pret, pcommitted,
           pfailed, overlapped>>
vars == <<cvars, svars, lvars, pvars>>
\* what a step of the photoapp client leaves alone, and a step of the store
nonClient == <<svars, lvars, pvars>>
nonStore == <<cvars, lvars, pvars>>
nonLab == <<cvars, svars, pvars>>
nonCallers == <<cvars, svars, lvars>>

----------------------------------------------------------------------------
(* Bounds of the model *)

WaitProbe == 8
MaxCount == 2
MaxRequests == 5
NProcs == 2

----------------------------------------------------------------------------
(* photoapp.py: the retry decorator's parameters *)

MaxAttempts == 3
WaitMultiplier == 1
WaitMin == 2
WaitMax == 30
ExpBase == 2

Ops == {"get_ping", "get_users", "get_images", "post_image", "get_image",
        "get_image_labels", "get_images_with_label", "delete_images"}

Statuses == {200, 204, 400, 404, 500}
Payloads == {"p1", "p2"}
Messages == {"no such assetid", "no such userid"}
Missing == "<missing>"

\* A response body: not JSON at all, or a JSON object whose expected success
\* key (data) and error key (message) are each present or missing.
Bodies == {[json |-> FALSE, data |-> Missing, message |-> Missing]}
          \cup {[json |-> TRUE, data |-> d, message |-> m] :
                  d \in Payloads \cup {Missing}, m \in Messages \cup {Missing}}

\* What one transport request can do: raise, or hand back a response.
TransportErrors == {"ConnectionError", "Timeout", "TooManyRedirects"}
NoBody == [json |-> FALSE, data |-> Missing, message |-> Missing]
Outcomes == {[kind |-> e, status |-> 0, body |-> NoBody] : e \in TransportErrors}
            \cup {[kind |-> "response", status |-> s, body |-> b] :
                    s \in Statuses, b \in Bodies}
NoOutcome == [kind |-> "none", status |-> 0, body |-> NoBody]

Files == {"None", "blank", "missing", "file"}
Dests == {"None", "dest"}
NoArg == [file |-> "None", dest |-> "None"]
ArgsOf(op) ==
  IF op = "post_image" THEN {[file |-> f, dest |-> "None"] : f \in Files}
  ELSE IF op = "get_image" THEN {[file |-> "None", dest |-> d] : d \in Dests}
  ELSE {NoArg}

\* Exceptions: the class and the message.  fmt tells how the message is built:
\*   "bare"    the text alone
\*   "status"  "status code <code>: <text>"
\*   "http"    requests' own raise_for_status message for <code>
Err(type, fmt, code, text) == [type |-> type, fmt |-> fmt, code |-> code, text |-> text]
NoErr == Err("none", "bare", 0, "")
Val(kind, data) == [kind |-> kind, data |-> data]
NoVal == Val("none", "")

\* The result of running a function body once.
Returned(v, sent) == [ok |-> TRUE, value |-> v, err |-> NoErr, sent |-> sent]
Raised(e, sent) == [ok |-> FALSE, value |-> NoVal, err |-> e, sent |-> sent]
NoRes == [ok |-> FALSE, value |-> NoVal, err |-> NoErr]

----------------------------------------------------------------------------
(* photoapp.py: the function bodies, one attempt each *)

\* requests.get/post/delete raising instead of returning a response
TransportRaise(out) == Raised(Err(out.kind, "bare", 0, "transport failure"), TRUE)

KeyErr(key) == Err("KeyError", "bare", 0, key)

\* _safe_json: the exception raised when response.json() fails
InvalidJson(status) == Err("HTTPError", "status", status, "invalid JSON response")

\* the "failed:" branch shared by the functions that parse the body first
StatusFailure(out) ==
  IF out.body.message = Missing THEN Raised(KeyErr("message"), TRUE)
  ELSE Raised(Err("HTTPError", "status", out.status, out.body.message), TRUE)

\* response.raise_for_status(): raises for 4xx and 5xx only
RaiseForStatus(out) ==
  IF out.status >= 400 /\ out.status < 500
    THEN Raised(Err("HTTPError", "http", out.status, "Client Error"), TRUE)
  ELSE IF out.status >= 500 /\ out.status < 600
    THEN Raised(Err("HTTPError", "http", out.status, "Server Error"), TRUE)
  ELSE Returned(Val("None", "None"), TRUE)

\* body['data'] turned into the function's list of tuples
DataResult(kind, out) ==
  IF out.body.data = Missing THEN Raised(KeyErr("data"), TRUE)
  ELSE Returned(Val(kind, out.body.data), TRUE)

get_ping(arg, out) ==
  IF out.kind # "response" THEN TransportRaise(out)
  ELSE IF ~out.body.json THEN Raised(InvalidJson(out.status), TRUE)
  ELSE IF out.status = 200 THEN DataResult("ping", out)
  ELSE StatusFailure(out)

get_users(arg, out) ==
  IF out.kind # "response" THEN TransportRaise(out)
  ELSE IF ~out.body.json THEN Raised(InvalidJson(out.status), TRUE)
  ELSE IF out.status = 200 THEN DataResult("users", out)
  ELSE StatusFailure(out)

get_images(arg, out) ==
  IF out.kind # "response" THEN TransportRaise(out)
  ELSE IF ~out.body.json THEN Raised(InvalidJson(out.status), TRUE)
  ELSE IF out.status = 200 THEN DataResult("images", out)
  ELSE StatusFailure(out)

\* _validate_local_filename: the ValueError it raises, or NoErr
ValidateLocalFilename(file) ==
  IF file = "None" THEN Err("ValueError", "bare", 0, "local_filename is required")
  ELSE IF file = "blank" THEN Err("ValueError", "bare", 0, "local_filename cannot be empty")
  ELSE IF file = "missing"
    THEN Err("ValueError", "bare", 0, "local_filename does not exist or is not a file")
  ELSE NoErr

\* variant: the local file is checked only after the request has been sent
post_imageValidatesLate(arg, out) ==
  IF out.kind # "response" THEN TransportRaise(out)
  ELSE IF ValidateLocalFilename(arg.file) # NoErr
    THEN Raised(ValidateLocalFilename(arg.file), TRUE)
  ELSE IF ~out.body.json THEN Raised(InvalidJson(out.status), TRUE)
  ELSE IF out.status = 200 THEN DataResult("assetid", out)
  ELSE StatusFailure(out)

post_image(arg, out) ==
  IF ValidateLocalFilename(arg.file) # NoErr
    THEN Raised(ValidateLocalFilename(arg.file), FALSE)
  ELSE IF out.kind # "response" THEN TransportRaise(out)
  ELSE IF ~out.body.json THEN Raised(InvalidJson(out.status), TRUE)
  ELSE IF out.status = 200 THEN DataResult("assetid", out)
  ELSE StatusFailure(out)

get_image(arg, out) ==
  IF out.kind # "response" THEN TransportRaise(out)
  ELSE IF out.status = 200 THEN
    IF ~out.body.json THEN Raised(InvalidJson(out.status), TRUE)
    ELSE IF out.body.data = Missing THEN Raised(KeyErr("local_filename"), TRUE)
    ELSE Returned(Val("filename",
                      IF arg.dest # "None" THEN arg.dest ELSE out.body.data), TRUE)
  ELSE IF out.status \in {400, 500} THEN
    IF ~out.body.json THEN Raised(InvalidJson(out.status), TRUE)
    ELSE IF out.body.message = Missing THEN Raised(KeyErr("message"), TRUE)
    ELSE Raised(Err("ValueError", "status", out.status, out.body.message), TRUE)
  ELSE RaiseForStatus(out)

\* the status dispatch shared by get_image_labels and get_images_with_label
LabelDispatch(kind, out) ==
  IF out.kind # "response" THEN TransportRaise(out)
  ELSE IF out.status = 200 THEN
    IF ~out.body.json THEN Raised(InvalidJson(out.status), TRUE)
    ELSE DataResult(kind, out)
  ELSE IF out.status = 400 THEN
    IF ~out.body.json THEN Raised(InvalidJson(out.status), TRUE)
    ELSE IF out.body.message = Missing THEN Raised(KeyErr("message"), TRUE)
    ELSE Raised(Err("ValueError", "bare", 0, out.body.message), TRUE)
  ELSE IF out.status = 500 THEN
    IF ~out.body.json THEN Raised(InvalidJson(out.status), TRUE)
    ELSE StatusFailure(out)
  ELSE RaiseForStatus(out)

get_image_labels(arg, out) == LabelDispatch("labels", out)

get_images_with_label(arg, out) == LabelDispatch("images_with_label", out)

delete_images(arg, out) ==
  IF out.kind # "response" THEN TransportRaise(out)
  ELSE IF ~out.body.json THEN Raised(InvalidJson(out.status), TRUE)
  ELSE IF out.status = 200 THEN Returned(Val("bool", "True"), TRUE)
  ELSE StatusFailure(out)

\* variant: get_image writes the file for any response that carries the keys,
\* before looking at the status
GetImageWriteAnyStatus(arg, out) ==
  IF out.kind = "response" /\ out.body.json /\ out.body.data # Missing
    THEN <<[name |-> IF arg.dest # "None" THEN arg.dest ELSE out.body.data,
            data |-> out.body.data]>>
  ELSE <<>>

\* get_image: the file one attempt writes (none, or one): only in the 200
\* branch, after the body has been parsed and its keys read; the name is the
\* caller's local_filename when given, else the one in the body
GetImageWrite(arg, out) ==
  IF out.kind = "response" /\ out.status = 200
     /\ out.body.json /\ out.body.data # Missing
    THEN <<[name |-> IF arg.dest # "None" THEN arg.dest ELSE out.body.data,
            data |-> out.body.data]>>
  ELSE <<>>

\* post_image: the record the web service creates for one attempt (none, or
\* one).  Every upload the service carries out inserts a new record with its
\* own assetid: the one a 200 response reports, or one the client never
\* learns when the response is lost or unreadable.
Uploaded(op, arg, out, reached, n) ==
  IF op = "post_image" /\ ValidateLocalFilename(arg.file) = NoErr
     /\ (IF out.kind = "response" THEN out.status = 200 ELSE reached)
    THEN <<[attempt |-> n,
            assetid |-> IF out.kind = "response" /\ out.body.json
                           /\ out.body.data # Missing
                          THEN out.body.data ELSE "unknown"]>>
  ELSE <<>>

\* one attempt of the decorated function
RunBody(op, arg, out) ==
  CASE op = "get_ping" -> get_ping(arg, out)
    [] op = "get_users" -> get_users(arg, out)
    [] op = "get_images" -> get_images(arg, out)
    [] op = "post_image" -> post_image(arg, out)
    [] op = "get_image" -> get_image(arg, out)
    [] op = "get_image_labels" -> get_image_labels(arg, out)
    [] op = "get_images_with_label" -> get_images_with_label(arg, out)
    [] op = "delete_images" -> delete_images(arg, out)

----------------------------------------------------------------------------
(* photoapp.py: the @retry decorator (tenacity) as configured on every function *)

Max(a, b) == IF a >= b THEN a ELSE b
Min(a, b) == IF a <= b THEN a ELSE b

\* variant: the decorator retries on every exception class
RetryIfAnyException(e) == e.type # "none"

\* retry=retry_if_exception_type((ConnectionError, Timeout))
RetryIf(e) == e.type \in {"ConnectionError", "Timeout"}

\* variant: the stop condition is off by one, a fourth attempt is made
StopAfterAttemptLate(n) == n > MaxAttempts

\* stop=stop_after_attempt(3)
StopAfterAttempt(n) == n >= MaxAttempts

\* variant: the exponential wait without its floor
WaitExponentialNoFloor(n) == Min(WaitMultiplier * ExpBase ^ (n - 1), WaitMax)

\* wait=wait_exponential(multiplier=1, min=2, max=30), after attempt number n
WaitExponential(n) ==
  Max(Max(0, WaitMin), Min(WaitMultiplier * ExpBase ^ (n - 1), WaitMax))

\* variant: reraise left at its default, giving up raises tenacity's RetryError
ReraiseWrapped(es) == Err("RetryError", "bare", 0, es[Len(es)].type)

\* reraise=True: on giving up, the last attempt's own exception is raised
Reraise(es) == es[Len(es)]

\* variant: a retried attempt's return value is dropped (only a first-attempt
\* success hands its value to the caller)
RetryingDropsRetriedValue(r, n, es) ==
  IF r.ok
    THEN [pc |-> "returned",
          res |-> [ok |-> TRUE,
                   value |-> IF n = 1 THEN r.value ELSE Val("None", "None"),
                   err |-> NoErr]]
  ELSE IF ~RetryIf(r.err)
    THEN [pc |-> "raised", res |-> [ok |-> FALSE, value |-> NoVal, err |-> r.err]]
  ELSE IF StopAfterAttempt(n)
    THEN [pc |-> "raised", res |-> [ok |-> FALSE, value |-> NoVal, err |-> Reraise(es)]]
  ELSE [pc |-> "sleep", res |-> NoRes]

\* What the decorator does with the outcome r of attempt number n, es being
\* the exceptions of the call so far (r's included).
Retrying(r, n, es) ==
  IF r.ok THEN [pc |-> "returned", res |-> [ok |-> TRUE, value |-> r.value, err |-> NoErr]]
  ELSE IF ~RetryIf(r.err)
    THEN [pc |-> "raised", res |-> [ok |-> FALSE, value |-> NoVal, err |-> r.err]]
  ELSE IF StopAfterAttempt(n)
    THEN [pc |-> "raised", res |-> [ok |-> FALSE, value |-> NoVal, err |-> Reraise(es)]]
  ELSE [pc |-> "sleep", res |-> NoRes]

----------------------------------------------------------------------------
\* no call has resolved yet
NoCall == [op |-> "", attempts |-> 0]

(* The client's actions *)

InitClientVars ==
  /\ cpc = "idle"
  /\ cop = "get_ping"
  /\ carg = NoArg
  /\ attempt = 0
  /\ requests = 0
  /\ sleeps = <<>>
  /\ errs = <<>>
  /\ lastOutcome = NoOutcome
  /\ cres = NoRes
  /\ uploads = <<>>
  /\ writes = <<>>
  /\ prevCall = NoCall

\* variant: one retry state per function object, kept from call to call
CallSharedRetryState(op, arg) ==
  /\ cpc = "idle"
  /\ cpc' = "attempt"
  /\ cop' = op
  /\ carg' = arg
  /\ attempt' = Max(1, prevCall.attempts)
  /\ requests' = 0
  /\ sleeps' = <<>>
  /\ errs' = <<>>
  /\ lastOutcome' = NoOutcome
  /\ cres' = NoRes
  /\ uploads' = <<>>
  /\ writes' = <<>>
  /\ UNCHANGED prevCall
  /\ UNCHANGED nonClient

\* the caller invokes a decorated function: a new retry state is created
Call(op, arg) ==
  /\ cpc = "idle"
  /\ cpc' = "attempt"
  /\ cop' = op
  /\ carg' = arg
  /\ attempt' = 1
  /\ requests' = 0
  /\ sleeps' = <<>>
  /\ errs' = <<>>
  /\ lastOutcome' = NoOutcome
  /\ cres' = NoRes
  /\ uploads' = <<>>
  /\ writes' = <<>>
  /\ UNCHANGED prevCall
  /\ UNCHANGED nonClient

\* one attempt: the function body runs against what the transport does, and
\* the decorator decides what comes next.  reached tells whether a request
\* that ended in a transport error had got to the web service.
AttemptStep(out, reached) ==
  /\ cpc = "attempt"
  /\ out.kind = "response" => reached
  /\ LET r == RunBody(cop, carg, out)
         es == IF r.ok THEN errs ELSE Append(errs, r.err)
         d == Retrying(r, attempt, es)
     IN /\ lastOutcome' = out
        /\ requests' = requests + (IF r.sent THEN 1 ELSE 0)
        /\ errs' = es
        /\ cpc' = d.pc
        /\ cres' = d.res
        /\ uploads' = uploads \o Uploaded(cop, carg, out, reached, attempt)
        /\ writes' = writes \o (IF cop = "get_image" THEN GetImageWrite(carg, out)
                                                    ELSE <<>>)
  /\ UNCHANGED <<cop, carg, attempt, sleeps, prevCall>>
  /\ UNCHANGED nonClient

\* the backoff sleep between two attempts
Sleep ==
  /\ cpc = "sleep"
  /\ sleeps' = Append(sleeps, WaitExponential(attempt))
  /\ attempt' = attempt + 1
  /\ cpc' = "attempt"
  /\ UNCHANGED <<cop, carg, requests, errs, lastOutcome, cres, uploads, writes,
                 prevCall>>
  /\ UNCHANGED nonClient

\* the call has resolved; its retry state is discarded
Resolve ==
  /\ cpc \in {"returned", "raised"}
  /\ cpc' = "idle"
  /\ attempt' = 0
  /\ requests' = 0
  /\ sleeps' = <<>>
  /\ errs' = <<>>
  /\ lastOutcome' = NoOutcome
  /\ cres' = NoRes
  /\ uploads' = <<>>
  /\ writes' = <<>>
  /\ prevCall' = [op |-> cop, attempts |-> attempt]
  /\ UNCHANGED <<cop, carg>>
  /\ UNCHANGED nonClient

----------------------------------------------------------------------------
(* shorten.py: LinksTable and the SQL statements *)

ShortUrls == {"abc", "xyz"}
LongUrls == {"http://example.com", "http://other.com"}

EmptyTable == [s \in ShortUrls |-> <<>>]

\* the values the functions return
RetStr(l) == [kind |-> "str", s |-> l, n |-> 0]
RetInt(k) == [kind |-> "int", s |-> "", n |-> k]
RetBool(b) == [kind |-> "bool", s |-> IF b THEN "True" ELSE "False", n |-> 0]
NoRet == [kind |-> "none", s |-> "", n |-> 0]
NoPrev == [op |-> "none", shorturl |-> "", longurl |-> "", ret |-> NoRet, escaped |-> FALSE]

\* variant: the UPDATE without its WHERE clause raises every row's counter
UpdateSqlNoWhere(t, s) ==
  [k \in DOMAIN t |-> [i \in DOMAIN t[k] |-> [t[k][i] EXCEPT !.count = @ + 1]]]

\* variant: an upsert, a key that is not there gets a row with counter 1
UpdateSqlUpsert(t, s) ==
  IF t[s] = <<>>
    THEN [t EXCEPT ![s] = <<[longurl |-> "", count |-> 1]>>]
  ELSE [t EXCEPT ![s] = [i \in DOMAIN t[s] |-> [t[s][i] EXCEPT !.count = @ + 1]]]

\* UPDATE LinksTable SET LookedUpCount = LookedUpCount + 1 WHERE ShortUrl = s
UpdateSql(t, s) ==
  [t EXCEPT ![s] = [i \in DOMAIN t[s] |-> [t[s][i] EXCEPT !.count = @ + 1]]]

\* SELECT LongUrl FROM LinksTable WHERE ShortUrl = s, then fetchone():
\* the rows found (none, or the first one)
SelectSql(t, s) == IF t[s] = <<>> THEN <<>> ELSE <<t[s][1]>>

\* INSERT INTO LinksTable (ShortUrl, LongUrl, LookedUpCount) VALUES(s, l, 0)
InsertSql(t, s, l) == [t EXCEPT ![s] = Append(@, [longurl |-> l, count |-> 0])]

\* the table is keyed by ShortUrl: an INSERT of a key already there is refused
DuplicateKey(t, s) == t[s] # <<>>

\* DELETE FROM LinksTable
DeleteSql(t) == EmptyTable

\* the value each function returns from its except block
FailureValue(op) ==
  CASE op = "get_url" -> RetStr("")
    [] op = "get_stats" -> RetInt(-1)
    [] op = "put_shorturl" -> RetBool(FALSE)
    [] op = "put_reset" -> RetBool(FALSE)

\* the first step after get_dbConn(), and after begin()
AfterConn(op) == IF op = "get_stats" THEN "stats" ELSE "begin"
\* variant: get_url reads the long url first and never runs its UPDATE
AfterBeginReadFirst(op) ==
  CASE op = "get_url" -> "select"
    [] op = "put_shorturl" -> "check"
    [] op = "put_reset" -> "delete"

AfterBegin(op) ==
  CASE op = "get_url" -> "update"
    [] op = "put_shorturl" -> "check"
    [] op = "put_reset" -> "delete"

InitStoreVars ==
  /\ table = EmptyTable
  /\ txn = EmptyTable
  /\ spc = "idle"
  /\ sop = "put_reset"
  /\ sarg = [shorturl |-> "", longurl |-> ""]
  /\ conn = "unset"
  /\ sret = NoRet
  /\ pending = NoRet
  /\ escaped = FALSE
  /\ failed = FALSE
  /\ steps = <<>>
  /\ pre = EmptyTable
  /\ prev = NoPrev
  /\ openConns = 0

----------------------------------------------------------------------------
(* shorten.py: the steps of the four functions *)

\* a caller invokes get_url(s), get_stats(s), put_shorturl(l, s) or put_reset()
StoreCall(op, s, l) ==
  /\ spc = "idle"
  /\ op = "get_url" => \A i \in DOMAIN table[s] : table[s][i].count < MaxCount
  /\ spc' = "conn"
  /\ sop' = op
  /\ sarg' = [shorturl |-> s, longurl |-> l]
  /\ pre' = table
  /\ steps' = <<>>
  /\ UNCHANGED <<table, txn, conn, sret, pending, escaped, failed, prev, openConns>>
  /\ UNCHANGED nonStore

\* an exception inside the try block: control goes to the except block
ToExcept ==
  /\ spc' = "except"
  /\ failed' = TRUE

\* dbConn = get_dbConn(): a new connection, or None when connecting fails
GetDbConn(ok) ==
  /\ spc = "conn"
  /\ conn' = IF ok THEN "open" ELSE "none"
  /\ openConns' = IF ok THEN openConns + 1 ELSE openConns
  /\ steps' = IF ok THEN Append(steps, "connect") ELSE steps
  /\ failed' = ~ok
  /\ spc' = AfterConn(sop)
  /\ UNCHANGED <<table, txn, sop, sarg, sret, pending, escaped, pre, prev>>
  /\ UNCHANGED nonStore

\* dbConn.begin(); on None it raises AttributeError
Begin(ok) ==
  /\ spc = "begin"
  /\ IF conn = "open" /\ ok
       THEN /\ txn' = table
            /\ steps' = Append(steps, "begin")
            /\ spc' = AfterBegin(sop)
            /\ UNCHANGED failed
       ELSE /\ ToExcept
            /\ UNCHANGED <<txn, steps>>
  /\ UNCHANGED <<table, sop, sarg, conn, sret, pending, escaped, pre, prev, openConns>>
  /\ UNCHANGED nonStore

\* variant: the connection runs in autocommit mode, the UPDATE reaches the
\* table at once
ExecUpdateAutocommit(ok) ==
  /\ spc = "update"
  /\ IF ok
       THEN /\ txn' = UpdateSql(txn, sarg.shorturl)
            /\ table' = UpdateSql(table, sarg.shorturl)
            /\ steps' = Append(steps, "update")
            /\ spc' = "select"
            /\ UNCHANGED failed
       ELSE /\ ToExcept
            /\ UNCHANGED <<table, txn, steps>>
  /\ UNCHANGED <<sop, sarg, conn, sret, pending, escaped, pre, prev, openConns>>
  /\ UNCHANGED nonStore

\* get_url: dbCursor.execute(update_sql, (shorturl,))
ExecUpdate(ok) ==
  /\ spc = "update"
  /\ IF ok
       THEN /\ txn' = UpdateSql(txn, sarg.shorturl)
            /\ steps' = Append(steps, "update")
            /\ spc' = "select"
            /\ UNCHANGED failed
       ELSE /\ ToExcept
            /\ UNCHANGED <<txn, steps>>
  /\ UNCHANGED <<table, sop, sarg, conn, sret, pending, escaped, pre, prev, openConns>>
  /\ UNCHANGED nonStore

\* get_url: dbCursor.execute(select_sql, (shorturl,)); row = fetchone()
ExecSelect(ok) ==
  /\ spc = "select"
  /\ IF ok
       THEN /\ pending' = LET rows == SelectSql(txn, sarg.shorturl)
                          IN IF rows # <<>> THEN RetStr(rows[1].longurl) ELSE RetStr("")
            /\ steps' = Append(steps, "select")
            /\ spc' = "commit"
            /\ UNCHANGED failed
       ELSE /\ ToExcept
            /\ UNCHANGED <<pending, steps>>
  /\ UNCHANGED <<table, txn, sop, sarg, conn, sret, escaped, pre, prev, openConns>>
  /\ UNCHANGED nonStore

\* get_stats: dbConn.cursor(), the SELECT of the count, fetchone() and the
\* return from inside the try block (no begin, no commit)
StatsSelect(ok) ==
  /\ spc = "stats"
  /\ IF conn = "open" /\ ok
       THEN /\ sret' = LET rows == SelectSql(table, sarg.shorturl)
                       IN IF rows # <<>> THEN RetInt(rows[1].count) ELSE RetInt(-1)
            /\ steps' = Append(steps, "select")
            /\ spc' = "finally"
            /\ UNCHANGED failed
       ELSE /\ ToExcept
            /\ UNCHANGED <<sret, steps>>
  /\ UNCHANGED <<table, txn, sop, sarg, conn, pending, escaped, pre, prev, openConns>>
  /\ UNCHANGED nonStore

\* variant: any existing row counts as "already taken" (the long urls are
\* not compared)
CheckSelectExistsIsTaken(ok) ==
  /\ spc = "check"
  /\ IF ok
       THEN LET rows == SelectSql(txn, sarg.shorturl)
            IN /\ steps' = Append(steps, "select")
               /\ IF rows # <<>>
                    THEN /\ pending' = RetBool(FALSE)
                         /\ spc' = "commit"
                    ELSE /\ spc' = "insert"
                         /\ UNCHANGED pending
               /\ UNCHANGED failed
       ELSE /\ ToExcept
            /\ UNCHANGED <<pending, steps>>
  /\ UNCHANGED <<table, txn, sop, sarg, conn, sret, escaped, pre, prev, openConns>>
  /\ UNCHANGED nonStore

\* variant: any existing row counts as success (the long urls are not compared)
CheckSelectExistsIsSuccess(ok) ==
  /\ spc = "check"
  /\ IF ok
       THEN LET rows == SelectSql(txn, sarg.shorturl)
            IN /\ steps' = Append(steps, "select")
               /\ IF rows # <<>>
                    THEN /\ pending' = RetBool(TRUE)
                         /\ spc' = "commit"
                    ELSE /\ spc' = "insert"
                         /\ UNCHANGED pending
               /\ UNCHANGED failed
       ELSE /\ ToExcept
            /\ UNCHANGED <<pending, steps>>
  /\ UNCHANGED <<table, txn, sop, sarg, conn, sret, escaped, pre, prev, openConns>>
  /\ UNCHANGED nonStore

\* put_shorturl: the check SELECT; an existing row decides the return value
\* (True when it maps to the same long url), no row leads to the INSERT
CheckSelect(ok) ==
  /\ spc = "check"
  /\ IF ok
       THEN LET rows == SelectSql(txn, sarg.shorturl)
            IN /\ steps' = Append(steps, "select")
               /\ IF rows # <<>>
                    THEN /\ pending' = RetBool(rows[1].longurl = sarg.longurl)
                         /\ spc' = "commit"
                    ELSE /\ spc' = "insert"
                         /\ UNCHANGED pending
               /\ UNCHANGED failed
       ELSE /\ ToExcept
            /\ UNCHANGED <<pending, steps>>
  /\ UNCHANGED <<table, txn, sop, sarg, conn, sret, escaped, pre, prev, openConns>>
  /\ UNCHANGED nonStore

\* put_shorturl: dbCursor.execute(insert_sql, (shorturl, longurl))
ExecInsert(ok) ==
  /\ spc = "insert"
  /\ IF ok /\ ~DuplicateKey(txn, sarg.shorturl)
       THEN /\ txn' = InsertSql(txn, sarg.shorturl, sarg.longurl)
            /\ pending' = RetBool(TRUE)
            /\ steps' = Append(steps, "insert")
            /\ spc' = "commit"
            /\ UNCHANGED failed
       ELSE /\ ToExcept
            /\ UNCHANGED <<txn, pending, steps>>
  /\ UNCHANGED <<table, sop, sarg, conn, sret, escaped, pre, prev, openConns>>
  /\ UNCHANGED nonStore

\* put_reset: dbCursor.execute(delete_sql)
ExecDelete(ok) ==
  /\ spc = "delete"
  /\ IF ok
       THEN /\ txn' = DeleteSql(txn)
            /\ pending' = RetBool(TRUE)
            /\ steps' = Append(steps, "delete")
            /\ spc' = "commit"
            /\ UNCHANGED failed
       ELSE /\ ToExcept
            /\ UNCHANGED <<txn, pending, steps>>
  /\ UNCHANGED <<table, sop, sarg, conn, sret, escaped, pre, prev, openConns>>
  /\ UNCHANGED nonStore

\* dbConn.commit() followed by the return: the transaction's view becomes the
\* table and the value set aside is returned
Commit(ok) ==
  /\ spc = "commit"
  /\ IF ok
       THEN /\ table' = txn
            /\ sret' = pending
            /\ steps' = Append(steps, "commit")
            /\ spc' = "finally"
            /\ UNCHANGED failed
       ELSE /\ ToExcept
            /\ UNCHANGED <<table, sret, steps>>
  /\ UNCHANGED <<txn, sop, sarg, conn, pending, escaped, pre, prev, openConns>>
  /\ UNCHANGED nonStore

\* the except block: get_stats returns -1; the others call dbConn.rollback()
\* and return their failure value.  rollback() on None raises AttributeError
\* and a failing rollback() raises too: the exception leaves the function.
Except(ok) ==
  /\ spc = "except"
  /\ IF sop = "get_stats"
       THEN /\ sret' = FailureValue(sop)
            /\ UNCHANGED <<txn, escaped, steps>>
       ELSE IF conn = "open" /\ ok
         THEN /\ txn' = table
              /\ steps' = Append(steps, "rollback")
              /\ sret' = FailureValue(sop)
              /\ UNCHANGED escaped
         ELSE /\ escaped' = TRUE
              /\ UNCHANGED <<txn, sret, steps>>
  /\ spc' = "finally"
  /\ UNCHANGED <<table, sop, sarg, conn, pending, failed, pre, prev, openConns>>
  /\ UNCHANGED nonStore

\* variant: close() sits after the try statement instead of in its finally
\* block, so an escaping exception skips it
FinallySkippedByException ==
  /\ spc = "finally"
  /\ IF conn = "open" /\ ~escaped
       THEN /\ conn' = "closed"
            /\ openConns' = openConns - 1
            /\ steps' = Append(steps, "close")
       ELSE UNCHANGED <<conn, openConns, steps>>
  /\ txn' = table
  /\ spc' = "done"
  /\ UNCHANGED <<table, sop, sarg, sret, pending, escaped, failed, pre, prev>>
  /\ UNCHANGED nonStore

\* the finally block: if dbConn is not None: dbConn.close().  Closing ends
\* whatever transaction is still open without committing it.
Finally ==
  /\ spc = "finally"
  /\ IF conn = "open"
       THEN /\ conn' = "closed"
            /\ openConns' = openConns - 1
            /\ steps' = Append(steps, "close")
       ELSE UNCHANGED <<conn, openConns, steps>>
  /\ txn' = table
  /\ spc' = "done"
  /\ UNCHANGED <<table, sop, sarg, sret, pending, escaped, failed, pre, prev>>
  /\ UNCHANGED nonStore

\* the function has ended: the caller has its return value or its exception
StoreReturn ==
  /\ spc = "done"
  /\ prev' = [op |-> sop, shorturl |-> sarg.shorturl, longurl |-> sarg.longurl,
              ret |-> sret, escaped |-> escaped]
  /\ spc' = "idle"
  /\ conn' = "unset"
  /\ sret' = NoRet
  /\ pending' = NoRet
  /\ escaped' = FALSE
  /\ failed' = FALSE
  /\ steps' = <<>>
  /\ pre' = table
  /\ UNCHANGED <<table, txn, sop, sarg, openConns>>
  /\ UNCHANGED nonStore

----------------------------------------------------------------------------
(* client-web-to-s3.py: the retry loop around requests.get *)

max_retries == 3

\* what one requests.get call can do: raise, or return a response
LabStatuses == {200, 403, 404, 500}
LabOutcomes ==
  {[kind |-> "raise", status |-> 0]}
    \cup {[kind |-> "response", status |-> c] : c \in LabStatuses}

\* the status_code the except block gives its stand-in response
ErrorStatus == -1

InitLabVars ==
  /\ lpc = "loop"
  /\ retry = 1
  /\ response = 0
  /\ lrequests = 0
  /\ lsleeps = <<>>
  /\ lseen = <<>>

\* the try body or the except block reaches its break
Breaks(out) ==
  \/ out.kind = "response" /\ out.status \in {200, 404}
  \/ out.kind = "raise" /\ retry = max_retries

\* one pass of the while loop: the condition, the try body, the except block
\* and the finally block (which also runs on the way out of a break)
LoopIteration(out) ==
  /\ lpc = "loop"
  /\ retry <= max_retries
  /\ lrequests < MaxRequests
  /\ lrequests' = lrequests + 1
  /\ lseen' = Append(lseen, out)
  /\ response' = IF out.kind = "response" THEN out.status
                 ELSE IF retry = max_retries THEN ErrorStatus
                 ELSE response
  /\ IF retry < max_retries
       THEN lsleeps' = Append(lsleeps, retry) /\ retry' = retry + 1
       ELSE UNCHANGED <<lsleeps, retry>>
  /\ lpc' = IF Breaks(out) \/ retry' > max_retries THEN "after" ELSE "loop"
  /\ UNCHANGED nonLab

----------------------------------------------------------------------------
(* shorten.py called by several callers at once, each on its own connection *)

Procs == 1..NProcs

NoWrite == [set |-> FALSE, rows |-> <<>>]
NoStoreCall == [op |-> "none", shorturl |-> "", longurl |-> ""]

\* the tables the callers may find: empty, or holding one mapping
InitTables ==
  {EmptyTable,
   InsertSql(EmptyTable, CHOOSE s \in ShortUrls : TRUE, CHOOSE l \in LongUrls : TRUE)}

\* what the statements of caller p work on: the committed table with the
\* row its own transaction has written
View(p) ==
  IF pwrite[p].set
    THEN [dbTable EXCEPT ![pcall[p].shorturl] = pwrite[p].rows]
  ELSE dbTable

\* a statement that writes the row of s waits while another caller's open
\* transaction holds that row
LockFree(p, s) == rowLock[s] \in {0, p}

\* the locks left when caller p's transaction ends
Released(p) == [s \in ShortUrls |-> IF rowLock[s] = p THEN 0 ELSE rowLock[s]]

InitCallers ==
  /\ dbTable \in InitTables
  /\ dbInit = dbTable
  /\ rowLock = [s \in ShortUrls |-> 0]
  /\ ppc = [p \in Procs |-> "idle"]
  /\ pcall = [p \in Procs |-> NoStoreCall]
  /\ pwrite = [p \in Procs |-> NoWrite]
  /\ pread = [p \in Procs |-> NoRet]
  /\ pret = [p \in Procs |-> NoRet]
  /\ pcommitted = [p \in Procs |-> FALSE]
  /\ pfailed = [p \in Procs |-> FALSE]
  /\ overlapped = FALSE

\* a statement of caller p raised: control goes to the except block
PToExcept(p) ==
  /\ ppc' = [ppc EXCEPT ![p] = "except"]
  /\ pfailed' = [pfailed EXCEPT ![p] = TRUE]

\* caller p calls get_url or put_shorturl
PCall(p, op, s, l) ==
  /\ ppc[p] = "idle"
  /\ ppc' = [ppc EXCEPT ![p] = "begin"]
  /\ pcall' = [pcall EXCEPT ![p] = [op |-> op, shorturl |-> s, longurl |-> l]]
  /\ overlapped' = (overlapped \/ \E q \in Procs \ {p} : ppc[q] \notin {"idle", "done"})
  /\ UNCHANGED <<dbTable, dbInit, rowLock, pwrite, pread, pret, pcommitted, pfailed>>
  /\ UNCHANGED nonCallers

\* dbConn = get_dbConn(); dbConn.begin()
PBegin(p, ok) ==
  /\ ppc[p] = "begin"
  /\ IF ok
       THEN ppc' = [ppc EXCEPT ![p] = AfterBegin(pcall[p].op)] /\ UNCHANGED pfailed
       ELSE PToExcept(p)
  /\ UNCHANGED <<dbTable, dbInit, rowLock, pcall, pwrite, pread, pret, pcommitted>>
  /\ UNCHANGED <<overlapped, nonCallers>>

\* variant: the counter is read without waiting for the row and written back
PUpdateStaleRead(p, ok) ==
  /\ ppc[p] = "update"
  /\ LET s == pcall[p].shorturl
     IN IF ok
          THEN /\ ppc' = [ppc EXCEPT ![p] = "select"]
               /\ IF View(p)[s] # <<>>
                    THEN /\ pwrite' = [pwrite EXCEPT ![p] =
                                         [set |-> TRUE, rows |-> UpdateSql(View(p), s)[s]]]
                         /\ rowLock' = IF rowLock[s] = 0
                                         THEN [rowLock EXCEPT ![s] = p] ELSE rowLock
                    ELSE UNCHANGED <<pwrite, rowLock>>
               /\ UNCHANGED pfailed
          ELSE PToExcept(p) /\ UNCHANGED <<pwrite, rowLock>>
  /\ UNCHANGED <<dbTable, dbInit, pcall, pread, pret, pcommitted>>
  /\ UNCHANGED <<overlapped, nonCallers>>

\* get_url: dbCursor.execute(update_sql, (shorturl,)); the database raises
\* the counter of the row as last committed, and keeps the row for this
\* transaction until it ends
PUpdate(p, ok) ==
  /\ ppc[p] = "update"
  /\ LET s == pcall[p].shorturl
     IN IF ok
          THEN /\ LockFree(p, s)
               /\ ppc' = [ppc EXCEPT ![p] = "select"]
               /\ IF View(p)[s] # <<>>
                    THEN /\ pwrite' = [pwrite EXCEPT ![p] =
                                         [set |-> TRUE, rows |-> UpdateSql(View(p), s)[s]]]
                         /\ rowLock' = [rowLock EXCEPT ![s] = p]
                    ELSE UNCHANGED <<pwrite, rowLock>>
               /\ UNCHANGED pfailed
          ELSE PToExcept(p) /\ UNCHANGED <<pwrite, rowLock>>
  /\ UNCHANGED <<dbTable, dbInit, pcall, pread, pret, pcommitted>>
  /\ UNCHANGED <<overlapped, nonCallers>>

\* get_url: the SELECT and the return value it sets aside
PSelect(p, ok) ==
  /\ ppc[p] = "select"
  /\ IF ok
       THEN LET rows == SelectSql(View(p), pcall[p].shorturl)
            IN /\ pread' = [pread EXCEPT ![p] =
                              RetStr(IF rows = <<>> THEN "" ELSE rows[1].longurl)]
               /\ ppc' = [ppc EXCEPT ![p] = "commit"]
               /\ UNCHANGED pfailed
       ELSE PToExcept(p) /\ UNCHANGED pread
  /\ UNCHANGED <<dbTable, dbInit, rowLock, pcall, pwrite, pret, pcommitted>>
  /\ UNCHANGED <<overlapped, nonCallers>>

\* put_shorturl: the SELECT that looks for the short url
PCheck(p, ok) ==
  /\ ppc[p] = "check"
  /\ IF ok
       THEN LET rows == SelectSql(View(p), pcall[p].shorturl)
            IN /\ IF rows # <<>>
                    THEN /\ pread' = [pread EXCEPT ![p] =
                                        RetBool(rows[1].longurl = pcall[p].longurl)]
                         /\ ppc' = [ppc EXCEPT ![p] = "commit"]
                    ELSE /\ ppc' = [ppc EXCEPT ![p] = "insert"]
                         /\ UNCHANGED pread
               /\ UNCHANGED pfailed
       ELSE PToExcept(p) /\ UNCHANGED pread
  /\ UNCHANGED <<dbTable, dbInit, rowLock, pcall, pwrite, pret, pcommitted>>
  /\ UNCHANGED <<overlapped, nonCallers>>

\* put_shorturl: the INSERT; it waits for a row of the same key that another
\* open transaction has written, and is refused when the key is there
PInsert(p, ok) ==
  /\ ppc[p] = "insert"
  /\ LET s == pcall[p].shorturl
     IN IF ok
          THEN /\ LockFree(p, s)
               /\ IF DuplicateKey(View(p), s)
                    THEN /\ ppc' = [ppc EXCEPT ![p] = "except"]
                         /\ UNCHANGED <<pwrite, rowLock, pread>>
                    ELSE /\ pwrite' = [pwrite EXCEPT ![p] =
                                         [set |-> TRUE,
                                          rows |-> InsertSql(View(p), s, pcall[p].longurl)[s]]]
                         /\ rowLock' = [rowLock EXCEPT ![s] = p]
                         /\ pread' = [pread EXCEPT ![p] = RetBool(TRUE)]
                         /\ ppc' = [ppc EXCEPT ![p] = "commit"]
               /\ UNCHANGED pfailed
          ELSE PToExcept(p) /\ UNCHANGED <<pwrite, rowLock, pread>>
  /\ UNCHANGED <<dbTable, dbInit, pcall, pret, pcommitted>>
  /\ UNCHANGED <<overlapped, nonCallers>>

\* dbConn.commit(), the return and the close of the finally block
PCommit(p, ok) ==
  /\ ppc[p] = "commit"
  /\ IF ok
       THEN /\ dbTable' = View(p)
            /\ rowLock' = Released(p)
            /\ pwrite' = [pwrite EXCEPT ![p] = NoWrite]
            /\ pcommitted' = [pcommitted EXCEPT ![p] = TRUE]
            /\ pret' = [pret EXCEPT ![p] = pread[p]]
            /\ ppc' = [ppc EXCEPT ![p] = "done"]
            /\ UNCHANGED pfailed
       ELSE /\ PToExcept(p)
            /\ UNCHANGED <<dbTable, rowLock, pwrite, pcommitted, pret>>
  /\ UNCHANGED <<dbInit, pcall, pread>>
  /\ UNCHANGED <<overlapped, nonCallers>>

\* the except block and the finally block: the rollback (or, when the
\* rollback raises, the close) drops what the transaction wrote
PExcept(p, ok) ==
  /\ ppc[p] = "except"
  /\ rowLock' = Released(p)
  /\ pwrite' = [pwrite EXCEPT ![p] = NoWrite]
  /\ pret' = [pret EXCEPT ![p] = IF ok THEN FailureValue(pcall[p].op) ELSE NoRet]
  /\ pfailed' = [pfailed EXCEPT ![p] = @ \/ ~ok]
  /\ ppc' = [ppc EXCEPT ![p] = "done"]
  /\ UNCHANGED <<dbTable, dbInit, pcall, pread, pcommitted>>
  /\ UNCHANGED <<overlapped, nonCallers>>

----------------------------------------------------------------------------
(* Specifications *)

Init == InitClientVars /\ InitStoreVars /\ InitLabVars /\ InitCallers

NextClient ==
  \/ \E op \in Ops : \E arg \in ArgsOf(op) : Call(op, arg)
  \/ \E out \in Outcomes, reached \in BOOLEAN : AttemptStep(out, reached)
  \/ Sleep
  \/ Resolve

NextStore ==
  \/ \E s \in ShortUrls : StoreCall("get_url", s, "")
  \/ \E s \in ShortUrls : StoreCall("get_stats", s, "")
  \/ \E s \in ShortUrls, l \in LongUrls : StoreCall("put_shorturl", s, l)
  \/ StoreCall("put_reset", "", "")
  \/ \E ok \in BOOLEAN : GetDbConn(ok)
  \/ \E ok \in BOOLEAN : Begin(ok)
  \/ \E ok \in BOOLEAN : ExecUpdate(ok)
  \/ \E ok \in BOOLEAN : ExecSelect(ok)
  \/ \E ok \in BOOLEAN : StatsSelect(ok)
  \/ \E ok \in BOOLEAN : CheckSelect(ok)
  \/ \E ok \in BOOLEAN : ExecInsert(ok)
  \/ \E ok \in BOOLEAN : ExecDelete(ok)
  \/ \E ok \in BOOLEAN : Commit(ok)
  \/ \E ok \in BOOLEAN : Except(ok)
  \/ Finally
  \/ StoreReturn

SpecClient == Init /\ [][NextClient]_vars

\* the call is synchronous: the interpreter keeps running a call that has
\* started, so an attempt in progress ends (the transport returns or raises)
\* and a backoff sleep ends
FairSpecClient ==
  /\ Init
  /\ [][NextClient]_vars
  /\ WF_vars(\E out \in Outcomes, reached \in BOOLEAN : AttemptStep(out, reached))
  /\ WF_vars(Sleep)

SpecStore == Init /\ [][NextStore]_vars

NextLab == \E out \in LabOutcomes : LoopIteration(out)

SpecLab == Init /\ [][NextLab]_vars

NextCallers ==
  \E p \in Procs :
    \/ \E s \in ShortUrls : PCall(p, "get_url", s, "")
    \/ \E s \in ShortUrls, l \in LongUrls : PCall(p, "put_shorturl", s, l)
    \/ \E ok \in BOOLEAN : PBegin(p, ok)
    \/ \E ok \in BOOLEAN : PUpdate(p, ok)
    \/ \E ok \in BOOLEAN : PSelect(p, ok)
    \/ \E ok \in BOOLEAN : PCheck(p, ok)
    \/ \E ok \in BOOLEAN : PInsert(p, ok)
    \/ \E ok \in BOOLEAN : PCommit(p, ok)
    \/ \E ok \in BOOLEAN : PExcept(p, ok)

SpecCallers == Init /\ [][NextCallers]_vars

----------------------------------------------------------------------------
(* Claims about the retrying client *)

\* the claims' own reading of "retryable": a connection failure or a timeout
Transient(e) == e.type \in {"ConnectionError", "Timeout"}
Resolved == cpc \in {"returned", "raised"}
\* the latest attempt of the call in progress, run again on what the transport did
LastRun == RunBody(cop, carg, lastOutcome)
\* what a call returns whose first attempt meets the response out
ImmediateSuccess(op, arg, out) == Retrying(RunBody(op, arg, out), 1, <<>>).res

\* C1: fewer than 3 retryable failures followed by a successful attempt: the
\* call returns (it has not given up before, and it does resolve), and the
\* value returned is the one a first-attempt success with the same response
\* returns.
C1_RetryThenSuccess ==
  /\ [](Resolved /\ LastRun.ok
          => /\ cpc = "returned"
             /\ \A i \in 1..Len(errs) : Transient(errs[i])
             /\ Len(errs) < MaxAttempts
             /\ cres = ImmediateSuccess(cop, carg, lastOutcome))
  /\ [](cpc = "raised" /\ Transient(cres.err) => Len(errs) >= MaxAttempts)
  /\ (cpc \in {"attempt", "sleep"} ~> Resolved)

\* C1 witness: a call returned on its third attempt after two retryable failures
C1_Witness ==
  /\ cpc = "returned"
  /\ Len(errs) = 2
  /\ attempt = 3
  /\ cres.value.kind = "filename"

\* C2 as stated: a call that ends in a non-retryable error has made exactly
\* one attempt, slept for no backoff and sent at most one request.
C2_ExactlyOneAttemptInCall ==
  cpc = "raised" /\ ~Transient(cres.err)
    => attempt = 1 /\ sleeps = <<>> /\ requests <= 1

\* C2 amended: an attempt that fails with a non-retryable error is the last
\* attempt of its call: the call raises that very error at once, with no
\* backoff sleep and no transport request after it (so exactly one attempt
\* is made when it is the first attempt that fails this way).
C2_NonRetryableEndsCall ==
  lastOutcome # NoOutcome /\ ~LastRun.ok /\ ~Transient(LastRun.err)
    => /\ cpc = "raised"
       /\ cres.err = LastRun.err
       /\ Len(errs) = attempt
       /\ Len(sleeps) = attempt - 1
       /\ requests = attempt - (IF LastRun.sent THEN 0 ELSE 1)
       /\ \A i \in 1..(Len(errs) - 1) : Transient(errs[i])
       /\ attempt = 1 => sleeps = <<>> /\ requests <= 1

\* C2 witness: a received 500 response ended a call on its first attempt
C2_Witness ==
  /\ cpc = "raised"
  /\ lastOutcome.kind = "response" /\ lastOutcome.status = 500
  /\ cres.err.type = "HTTPError"
  /\ attempt = 1 /\ requests = 1 /\ sleeps = <<>>

\* C3: a call never makes more than 3 attempts, and after 3 retryable
\* failures it raises the third attempt's own error.
C3_AttemptCeiling ==
  /\ attempt <= MaxAttempts
  /\ Len(errs) <= MaxAttempts
  /\ requests <= MaxAttempts
  /\ cpc = "sleep" => attempt < MaxAttempts
  /\ (Len(errs) = MaxAttempts /\ Transient(errs[MaxAttempts]))
       => /\ cpc = "raised"
          /\ attempt = MaxAttempts
          /\ cres.err = errs[MaxAttempts]
          /\ cres.err.type = lastOutcome.kind

\* C3 witness: three retryable failures, the last of another class than the first
C3_Witness ==
  /\ cpc = "raised"
  /\ Len(errs) = 3
  /\ errs[1].type = "ConnectionError"
  /\ errs[3].type = "Timeout"

\* C4: the delays slept in one call never decrease and stay between the
\* floor and the ceiling; so does the wait for every attempt number.
C4_Backoff ==
  /\ \A i \in 1..Len(sleeps) :
        /\ sleeps[i] >= WaitMin
        /\ sleeps[i] <= WaitMax
        /\ i > 1 => sleeps[i - 1] <= sleeps[i]
  /\ \A n \in 1..WaitProbe :
        /\ WaitExponential(n) >= WaitMin
        /\ WaitExponential(n) <= WaitMax
        /\ WaitExponential(n) <= WaitExponential(n + 1)

\* C4 witness: a call that slept twice
C4_Witness == cpc = "attempt" /\ Len(sleeps) = 2 /\ attempt = 3

----------------------------------------------------------------------------
(* Claims about the mapping store *)

Count(seq, x) == Cardinality({i \in DOMAIN seq : seq[i] = x})
Did(x) == Count(steps, x) > 0
\* the table t is the table u with the counters of every row of key s raised by d
CountersRaised(t, u, s, d) ==
  \A k \in ShortUrls :
    /\ Len(t[k]) = Len(u[k])
    /\ \A i \in DOMAIN t[k] :
         /\ t[k][i].longurl = u[k][i].longurl
         /\ t[k][i].count = u[k][i].count + (IF k = s THEN d ELSE 0)

\* C5: get_url raises the counter of its key by exactly one when the lookup
\* commits, and leaves every stored counter as it was when any step failed;
\* before the commit the stored table is the one the call started with.
C5_LookupCountsOnce ==
  sop = "get_url" /\ spc # "idle"
    => /\ ~Did("commit") => table = pre
       /\ Did("commit") =>
            /\ CountersRaised(table, pre, sarg.shorturl, 1)
            /\ ~failed
            /\ Count(steps, "update") = 1
       /\ (spc = "done" /\ failed) => table = pre /\ ~Did("commit")

\* C5 witness: a lookup of a present key failed after its UPDATE had run
C5_Witness ==
  /\ sop = "get_url" /\ spc = "done"
  /\ pre[sarg.shorturl] # <<>>
  /\ Did("update") /\ ~Did("commit") /\ failed
  /\ table = pre

\* the call that has just ended repeats the previous call, a put_shorturl of
\* the same pair that returned True
RepeatedPut ==
  /\ sop = "put_shorturl" /\ spc = "done"
  /\ prev.op = "put_shorturl" /\ prev.ret = RetBool(TRUE)
  /\ prev.shorturl = sarg.shorturl /\ prev.longurl = sarg.longurl

\* C6: a put_shorturl repeating the pair of a put_shorturl that returned True
\* writes nothing, leaves exactly one row for the key (the first call's row)
\* and, the database working, returns True.
C6_PutIdempotent ==
  RepeatedPut
    => /\ table = pre
       /\ ~Did("insert")
       /\ Len(table[sarg.shorturl]) = 1
       /\ table[sarg.shorturl][1].longurl = sarg.longurl
       /\ ~failed => sret = RetBool(TRUE) /\ Did("commit")

\* C6 witness: the repeated call went through without a database failure
C6_Witness == RepeatedPut /\ ~failed /\ sret = RetBool(TRUE)

\* the call that has just ended is a put_shorturl on a key mapped to another long url
CollidingPut ==
  /\ sop = "put_shorturl" /\ spc = "done"
  /\ pre[sarg.shorturl] # <<>>
  /\ pre[sarg.shorturl][1].longurl # sarg.longurl

\* C7: put_shorturl on a key mapped to a different long url leaves the table
\* as it was, adds no row, and the value it returns is False.
C7_PutCollision ==
  CollidingPut
    => /\ table = pre
       /\ ~Did("insert")
       /\ sret # RetBool(TRUE)
       /\ ~escaped => sret = RetBool(FALSE)
       /\ ~failed => Did("commit")

\* C7 witness: a colliding put on a row that has been looked up, database working
C7_Witness ==
  /\ CollidingPut /\ ~failed /\ sret = RetBool(FALSE)
  /\ table[sarg.shorturl][1].count > 0

\* C8 as stated: put_reset ends either returning True with an empty table or
\* returning False with the table it started with.
C8_ResetAllOrNothing ==
  sop = "put_reset" /\ spc = "done"
    => \/ sret = RetBool(TRUE) /\ table = EmptyTable
       \/ sret = RetBool(FALSE) /\ table = pre /\ failed

\* C9 as stated: whatever database step fails, a store function returns its
\* failure value and no exception leaves it.
C9_FailuresAbsorbed ==
  spc = "done" => /\ ~escaped
                  /\ failed => sret = FailureValue(sop)

\* C10: a call takes at most one connection, a new one; a connection taken
\* is closed exactly once before the call ends; no connection stays open.
C10_ConnectionsReleased ==
  /\ openConns \in {0, 1}
  /\ Count(steps, "connect") <= 1
  /\ spc \in {"idle", "conn"} => openConns = 0 /\ conn = "unset"
  /\ Did("close") => Did("connect")
  /\ spc = "done" => /\ openConns = 0
                      /\ Count(steps, "close") = Count(steps, "connect")
                      /\ conn \in {"closed", "none"}

\* C10 witness: a call whose rollback failed still closed its connection
C10_Witness ==
  /\ spc = "done" /\ escaped
  /\ Did("connect") /\ Did("close") /\ ~Did("rollback")
  /\ openConns = 0

\* one step of the store, seen on the rows of key k
RowStep(k) ==
  /\ (table[k] # <<>> /\ table'[k] # <<>>)
       => /\ Len(table'[k]) = Len(table[k])
          /\ \A i \in DOMAIN table[k] :
               /\ table'[k][i].longurl = table[k][i].longurl
               /\ table'[k][i].count >= table[k][i].count
               /\ table'[k][i].count # table[k][i].count
                    => /\ table'[k][i].count = table[k][i].count + 1
                       /\ sop = "get_url" /\ sarg.shorturl = k
                       /\ spc = "commit" /\ spc' = "finally"
  /\ (table[k] = <<>> /\ table'[k] # <<>>)
       => /\ sop = "put_shorturl" /\ sarg.shorturl = k /\ spc = "commit"
          /\ table'[k] = <<[longurl |-> sarg.longurl, count |-> 0]>>
  /\ (table[k] # <<>> /\ table'[k] = <<>>)
       => sop = "put_reset" /\ spc = "commit"
  /\ \A i \in DOMAIN table'[k] : table'[k][i].count >= 0

\* C11: no step changes the long url of an existing row; a counter never
\* decreases, is never negative and moves only by one, at the commit of a
\* get_url on its key; a row appears with counter 0 at the commit of a
\* put_shorturl on its key and disappears only at the commit of a put_reset.
C11_RowLifetime == [][\A k \in ShortUrls : RowStep(k)]_vars

\* C11 witness: after lookups of one key, a put_shorturl and a get_stats on
\* it have run and its counter stands where the lookups left it
C11_Witness ==
  /\ spc = "done" /\ sop = "get_stats" /\ ~failed
  /\ prev.op = "put_shorturl" /\ prev.shorturl = sarg.shorturl
  /\ sret = RetInt(MaxCount)
  /\ table[sarg.shorturl][1].count = MaxCount

----------------------------------------------------------------------------
(* Claims about the status and body handling of the client *)

\* the call has resolved on a response that its latest attempt received
ResolvedOnResponse == Resolved /\ LastRun.sent /\ lastOutcome.kind = "response"
\* that response carries a JSON body with a message
WithMessage == lastOutcome.body.json /\ lastOutcome.body.message # Missing

\* C12 as stated: get_image, its first attempt receiving status 400 with the
\* message "no such assetid", raises a ValueError whose message is exactly
\* that message, after one request and no retry.
C12_NoSuchAssetidExact ==
  (/\ cop = "get_image" /\ ResolvedOnResponse /\ attempt = 1
   /\ lastOutcome.status = 400
   /\ lastOutcome.body.json /\ lastOutcome.body.message = "no such assetid")
    => /\ cpc = "raised"
       /\ cres.err = Err("ValueError", "bare", 0, "no such assetid")
       /\ requests = 1 /\ sleeps = <<>>

\* C13 as stated: whatever the function, a received 400 response with a
\* message makes the call raise a ValueError carrying that message.
C13_ClientFaultIsValueError ==
  (ResolvedOnResponse /\ lastOutcome.status = 400 /\ WithMessage)
    => /\ cpc = "raised"
       /\ cres.err.type = "ValueError"
       /\ cres.err.text = lastOutcome.body.message

\* C14 as stated: whatever the function, a received 500 response with a
\* message makes the call raise an error carrying that message, of another
\* class than the one the function raises for the same response with status 400.
C14_ServerFaultDistinct ==
  (ResolvedOnResponse /\ lastOutcome.status = 500 /\ WithMessage)
    => /\ cpc = "raised"
       /\ cres.err.text = lastOutcome.body.message
       /\ cres.err.type #
            RunBody(cop, carg, [lastOutcome EXCEPT !.status = 400]).err.type

\* C15 as stated: a call resolving on a response whose status is not 200
\* raises; a call returns only on status 200, and then a value other than None.
C15_NoSwallowedError ==
  /\ (ResolvedOnResponse /\ lastOutcome.status # 200) => cpc = "raised"
  /\ cpc = "returned"
       => /\ lastOutcome.kind = "response" /\ lastOutcome.status = 200
          /\ cres.value.kind # "None"

\* C16 as stated: a call resolving on a response whose body is not JSON
\* raises the invalid-JSON error, whatever the status.
C16_InvalidJsonAnyStatus ==
  (ResolvedOnResponse /\ ~lastOutcome.body.json)
    => /\ cpc = "raised"
       /\ cres.err = Err("HTTPError", "status", lastOutcome.status,
                         "invalid JSON response")

\* C17: post_image given no name, a blank name or the name of no file sends
\* no request, sleeps for no backoff and raises its validation error on the
\* first attempt.
C17_ValidateBeforeNetwork ==
  (cop = "post_image" /\ carg.file # "file" /\ cpc # "idle")
    => /\ requests = 0
       /\ sleeps = <<>>
       /\ attempt = 1
       /\ cpc \in {"attempt", "raised"}
       /\ cpc = "raised"
            => /\ cres.err.type = "ValueError"
               /\ cres.err.fmt = "bare"
               /\ cres.err.text \in {"local_filename is required",
                                      "local_filename cannot be empty",
                                      "local_filename does not exist or is not a file"}
               /\ errs = <<cres.err>>

\* C17 witness: post_image of a name that is no file has raised
C17_Witness ==
  /\ cop = "post_image" /\ carg.file = "missing" /\ cpc = "raised"
  /\ lastOutcome.kind = "ConnectionError"
  /\ requests = 0

----------------------------------------------------------------------------
(* Claims about the effects of post_image and get_image *)

\* C18: in one post_image call every attempt sends its own POST; each upload
\* the service carries out adds one record, made by a later attempt than the
\* records before it, and no step of the call changes or removes a record
\* already made; a call makes at most 3 records, never more than it sent
\* requests; the assetid returned is that of the record made by the attempt
\* that succeeded, the last one.
C18_UploadPerAttempt ==
  /\ [](/\ Len(uploads) <= requests
        /\ requests <= MaxAttempts
        /\ cop # "post_image" => uploads = <<>>
        /\ cop = "post_image" /\ carg.file = "file" /\ cpc \in {"sleep", "returned", "raised"}
             => requests = attempt
        /\ \A i \in DOMAIN uploads :
             /\ uploads[i].attempt <= attempt
             /\ i > 1 => uploads[i - 1].attempt < uploads[i].attempt
        /\ cop = "post_image" /\ cpc = "returned"
             => /\ uploads # <<>>
                /\ uploads[Len(uploads)].attempt = attempt
                /\ cres.value = Val("assetid", uploads[Len(uploads)].assetid)
                /\ cres.value.data = lastOutcome.body.data)
  /\ [][cpc # "idle" /\ cpc' # "idle"
          => /\ Len(uploads') >= Len(uploads)
             /\ SubSeq(uploads', 1, Len(uploads)) = uploads]_vars

\* C18 witness: two uploads whose responses were lost, then a third that
\* succeeded: three records, the assetid of the third returned
C18_Witness ==
  /\ cop = "post_image" /\ cpc = "returned"
  /\ Len(uploads) = 3
  /\ uploads[1].assetid = "unknown"
  /\ cres.value.data = "p2"

\* C19: get_image writes a file only on an attempt that received status 200
\* and read its body, which is the attempt the call returns on; the file's
\* name is the caller's local_filename when given, else the one in the
\* body, and is the value returned; a call that raises, or that is still
\* retrying, has written nothing, and no other function writes a file.
C19_WriteOnlyOnSuccess ==
  /\ cop # "get_image" => writes = <<>>
  /\ cpc \in {"attempt", "sleep", "raised"} => writes = <<>>
  /\ writes # <<>>
       => /\ Len(writes) = 1
          /\ cpc = "returned"
          /\ lastOutcome.kind = "response" /\ lastOutcome.status = 200
          /\ lastOutcome.body.json
          /\ writes[1].name = (IF carg.dest # "None" THEN carg.dest
                                                      ELSE lastOutcome.body.data)
          /\ writes[1].data = lastOutcome.body.data
          /\ cres.value = Val("filename", writes[1].name)
  /\ (cop = "get_image" /\ cpc = "returned" /\ lastOutcome.status = 200)
       => writes # <<>>

\* C19 witness: after a retried failure, a download without a caller's name
\* was written under the name in the body
C19_Witness ==
  /\ cop = "get_image" /\ cpc = "returned" /\ carg.dest = "None"
  /\ Len(errs) = 1
  /\ writes = <<[name |-> "p2", data |-> "p2"]>>

----------------------------------------------------------------------------
(* Claims about the transaction discipline of the store *)

\* the place of the first step x among the steps of the call (0: not there)
First(x) ==
  IF Did(x) THEN CHOOSE i \in DOMAIN steps :
                   steps[i] = x /\ \A j \in 1..(i - 1) : steps[j] # x
  ELSE 0

\* C21 as stated: a call that obtained a connection began a transaction and
\* ended it by exactly one terminal step before closing: a commit when no
\* step failed, a rollback when one did; never neither, never both.
C21_OneTerminalStep ==
  (spc = "done" /\ Did("connect"))
    => /\ Count(steps, "commit") + Count(steps, "rollback") = 1
       /\ ~failed => Did("begin") /\ Did("commit")
       /\ failed => Did("rollback")
       /\ Did("close") /\ First("close") = Len(steps)

\* C22: a get_url during which no database step fails commits; on an absent
\* key it returns "" and leaves the table as it was; on a present key it
\* returns the long url and changes nothing but the counter of that key's row.
C22_LookupFrame ==
  (sop = "get_url" /\ spc = "done" /\ ~failed)
    => /\ Did("commit")
       /\ pre[sarg.shorturl] = <<>>
            => sret = RetStr("") /\ table = pre
       /\ pre[sarg.shorturl] # <<>>
            => /\ sret = RetStr(pre[sarg.shorturl][1].longurl)
               /\ CountersRaised(table, pre, sarg.shorturl, 1)

\* C22 witness: a committed lookup of an absent key beside a row that has
\* been looked up
C22_Witness ==
  /\ sop = "get_url" /\ spc = "done" /\ Did("commit")
  /\ pre[sarg.shorturl] = <<>>
  /\ \E k \in ShortUrls : table[k] # <<>> /\ table[k][1].count > 0

\* C23: in a get_url the SELECT runs only after the UPDATE has run without
\* failing, and a commit only after both: a committed lookup of a present
\* key returns the long url of a row whose counter it has already raised.
C23_IncrementBeforeRead ==
  (sop = "get_url" /\ spc # "idle")
    => /\ Did("select") => Did("update") /\ First("update") < First("select")
       /\ Did("commit") => Did("select") /\ First("select") < First("commit")
       /\ spc = "select" => Did("update") /\ ~failed
       /\ (spc \in {"select", "commit"} /\ pre[sarg.shorturl] # <<>>)
            => txn[sarg.shorturl][1].count = pre[sarg.shorturl][1].count + 1

\* C23 witness: a committed lookup of a present key, its steps in order
C23_Witness ==
  /\ sop = "get_url" /\ spc = "done" /\ pre[sarg.shorturl] # <<>>
  /\ steps = <<"connect", "begin", "update", "select", "commit", "close">>

----------------------------------------------------------------------------
(* Claims about the retry state from call to call *)

\* the delay the policy gives before the second attempt of a call
FirstDelay == Max(WaitMin, Min(WaitMultiplier, WaitMax))

\* C24: whatever the call resolved last (any operation, one to three
\* attempts), the current call counts its attempts from one: the attempt
\* number is one more than the failures of this call, a call gives up on a
\* retryable failure only at its third attempt, and its first backoff delay
\* is the policy's first delay.
C24_FreshRetryState ==
  /\ cpc \in {"attempt", "sleep"} => attempt = Len(sleeps) + 1
  /\ cpc = "attempt" => Len(errs) = attempt - 1
  /\ (cpc = "raised" /\ Transient(errs[Len(errs)]))
       => Len(errs) = MaxAttempts /\ Len(sleeps) = MaxAttempts - 1
  /\ sleeps # <<>> => sleeps[1] = FirstDelay

\* C24 witness: a call of another operation that follows a call which used
\* all three attempts, and uses all three itself
C24_Witness ==
  /\ prevCall.attempts = MaxAttempts /\ prevCall.op # cop
  /\ cpc = "raised" /\ Len(errs) = MaxAttempts
  /\ sleeps = <<FirstDelay, WaitExponential(2)>>

----------------------------------------------------------------------------
(* Claims about the retry loop of the lab01 web client *)

\* C25 as stated: whatever the server does, the loop sends at most
\* max_retries requests, and it has left the loop once it has sent them.
C25_LoopBounded ==
  /\ lrequests <= max_retries
  /\ lrequests = max_retries => lpc = "after"

----------------------------------------------------------------------------
(* Claims about concurrent callers of the store *)

\* callers p and q put the same pair on a key that was absent, and no
\* database step of theirs failed
SamePut(p, q) ==
  /\ p # q
  /\ pcall[p].op = "put_shorturl" /\ pcall[q].op = "put_shorturl"
  /\ pcall[q].shorturl = pcall[p].shorturl /\ pcall[q].longurl = pcall[p].longurl
  /\ dbInit[pcall[p].shorturl] = <<>>
  /\ ~pfailed[p] /\ ~pfailed[q]

\* C26 as stated: two concurrent put_shorturl calls of the same pair on an
\* absent key never leave more than one row for the key, and both return True.
C26_ConcurrentPutBothTrue ==
  \A p, q \in Procs :
    SamePut(p, q)
      => /\ Len(dbTable[pcall[p].shorturl]) <= 1
         /\ ppc[p] = "done" => pret[p] = RetBool(TRUE)

\* the get_url calls on key s whose transaction has committed
CommittedLookups(s) ==
  {p \in Procs : pcall[p].op = "get_url" /\ pcall[p].shorturl = s /\ pcommitted[p]}

\* C27: for a key that was there before the callers started, the stored
\* counter has grown by exactly the number of get_url calls on it whose
\* transaction has committed, at every moment and so once all have finished.
C27_NoLostIncrement ==
  \A s \in ShortUrls :
    dbInit[s] # <<>>
      => /\ Len(dbTable[s]) = 1
         /\ dbTable[s][1].count = dbInit[s][1].count + Cardinality(CommittedLookups(s))

\* C27 witness: every caller has looked up the same key, one of them called
\* while another's call was under way, and all have finished and committed
C27_Witness ==
  \E s \in ShortUrls :
    /\ dbInit[s] # <<>>
    /\ \A p \in Procs : ppc[p] = "done" /\ pcall[p].op = "get_url"
    /\ CommittedLookups(s) = Procs
    /\ overlapped
    /\ dbTable[s][1].count = dbInit[s][1].count + NProcs

====
